---------------------------- MODULE Spec2Model ----------------------------
(***************************************************************************)
(* A model of the sales-dashboard script (src/script.js): row             *)
(* standardisation, date normalisation, filtering, KPI aggregation, the    *)
(* two chart series, the table preview, the CSV export and the event       *)
(* handlers that drive them.                                               *)
(*                                                                         *)
(* Text is modelled character by character: a JavaScript string is a       *)
(* sequence of one-character strings.  A JavaScript number is modelled as  *)
(* an integer count of hundredths (1250.50 is 125050), which represents    *)
(* every number of the built-in sample exactly.                            *)
(***************************************************************************)
EXTENDS Integers, Sequences, FiniteSets, TLC

\* F applied to the value of v, which is computed once.
With(v, F(_)) == CHOOSE r \in {F(x) : x \in {v}} : TRUE

(***************************************************************************)
(* Characters and strings                                                  *)
(***************************************************************************)

\* The printable ASCII characters in code-unit order, from code 32 to 126
\* (the grave accent, code 96, is spelled out).
Ascii ==
    << " ", "!", "\"", "#", "$", "%", "&", "'", "(", ")", "*", "+", ",", "-",
       ".", "/", "0", "1", "2", "3", "4", "5", "6", "7", "8", "9", ":", ";",
       "<", "=", ">", "?", "@", "A", "B", "C", "D", "E", "F", "G", "H", "I",
       "J", "K", "L", "M", "N", "O", "P", "Q", "R", "S", "T", "U", "V", "W",
       "X", "Y", "Z", "[", "\\", "]", "^", "_", "grave", "a", "b", "c", "d", "e",
       "f", "g", "h", "i", "j", "k", "l", "m", "n", "o", "p", "q", "r", "s",
       "t", "u", "v", "w", "x", "y", "z", "{", "|", "}", "~" >>

Char == {Ascii[i] : i \in 1..Len(Ascii)} \cup {"\n", "\t", "\r"}

\* The UTF-16 code unit of a character.
CharCode ==
    [c \in Char |->
        IF c = "\t" THEN 9
        ELSE IF c = "\n" THEN 10
        ELSE IF c = "\r" THEN 13
        ELSE 31 + (CHOOSE i \in 1..Len(Ascii) : Ascii[i] = c)]

Digit == {"0", "1", "2", "3", "4", "5", "6", "7", "8", "9"}

DigitVal(c) == CharCode[c] - CharCode["0"]

DigitChar(n) == Ascii[CharCode["0"] - 31 + n]

IsSpace(c) == c \in {" ", "\t", "\n", "\r"}

IsDigits(s) == \A i \in 1..Len(s) : s[i] \in Digit

\* a < b for JavaScript strings: lexicographic on code units.
RECURSIVE StrLess(_, _)
StrLess(a, b) ==
    IF b = << >> THEN FALSE
    ELSE IF a = << >> THEN TRUE
    ELSE IF a[1] = b[1] THEN StrLess(Tail(a), Tail(b))
    ELSE CharCode[a[1]] < CharCode[b[1]]

\* String.prototype.trim
RECURSIVE TrimStart(_)
TrimStart(s) ==
    IF s # << >> /\ IsSpace(s[1]) THEN TrimStart(Tail(s)) ELSE s

RECURSIVE TrimEnd(_)
TrimEnd(s) ==
    IF s # << >> /\ IsSpace(s[Len(s)]) THEN TrimEnd(SubSeq(s, 1, Len(s) - 1))
    ELSE s

Trim(s) == TrimEnd(TrimStart(s))

\* String.prototype.toLowerCase on the ASCII letters
LowerChar(c) ==
    IF CharCode[c] >= CharCode["A"] /\ CharCode[c] <= CharCode["Z"]
    THEN Ascii[CharCode[c] + 32 - 31]
    ELSE c

ToLowerCase(s) == [i \in 1..Len(s) |-> LowerChar(s[i])]

\* String.prototype.padStart(2, "0")
PadStart2(s) == IF Len(s) < 2 THEN <<"0">> \o s ELSE s

RECURSIVE DigitsValue(_)
DigitsValue(ds) ==
    IF ds = << >> THEN 0
    ELSE 10 * DigitsValue(SubSeq(ds, 1, Len(ds) - 1)) + DigitVal(ds[Len(ds)])

\* The decimal digits of a natural number.
RECURSIVE NatToDigits(_)
NatToDigits(n) ==
    IF n < 10 THEN <<DigitChar(n)>>
    ELSE NatToDigits(n \div 10) \o <<DigitChar(n % 10)>>

\* n written with at least w digits.
RECURSIVE PadDigits(_, _)
PadDigits(n, w) ==
    IF Len(NatToDigits(n)) >= w THEN NatToDigits(n)
    ELSE [i \in 1..w |->
            IF i <= w - Len(NatToDigits(n)) THEN "0"
            ELSE NatToDigits(n)[i - (w - Len(NatToDigits(n)))]]

RECURSIVE Join(_, _)
Join(parts, sep) ==
    IF parts = << >> THEN << >>
    ELSE IF Len(parts) = 1 THEN parts[1]
    ELSE parts[1] \o sep \o Join(Tail(parts), sep)

(***************************************************************************)
(* JavaScript values                                                       *)
(***************************************************************************)

\* Hundredths per unit: numbers are kept to two decimals, the precision of
\* the sample's amounts and of toFixed(2).
Scale == 100

Str(s) == [t |-> "string", s |-> s, n |-> 0]
Num(n) == [t |-> "number", s |-> << >>, n |-> n]
Null == [t |-> "null", s |-> << >>, n |-> 0]
Undefined == [t |-> "undefined", s |-> << >>, n |-> 0]

IsStr(v) == v.t = "string"
IsNum(v) == v.t = "number"

\* ToBoolean
Truthy(v) ==
    CASE v.t = "string" -> v.s # << >>
      [] v.t = "number" -> v.n # 0
      [] OTHER -> FALSE

\* a || b
Or(a, b) == IF Truthy(a) THEN a ELSE b

\* Number.prototype.toString for a number of hundredths: the shortest
\* decimal, without trailing zeros ("1250.5", "42.99", "-0.05", "3").
NumberToString(n) ==
    LET a == IF n < 0 THEN -n ELSE n
        sign == IF n < 0 THEN <<"-">> ELSE << >>
        whole == NatToDigits(a \div Scale)
        frac == a % Scale
        fracText ==
            IF frac = 0 THEN << >>
            ELSE IF frac % 10 = 0 THEN <<".", DigitChar(frac \div 10)>>
            ELSE <<".", DigitChar(frac \div 10), DigitChar(frac % 10)>>
    IN sign \o whole \o fracText

\* String(v) for a value.
JsString(v) ==
    CASE v.t = "string" -> v.s
      [] v.t = "number" -> NumberToString(v.n)
      [] v.t = "null" -> <<"n", "u", "l", "l">>
      [] OTHER -> <<"u", "n", "d", "e", "f", "i", "n", "e", "d">>

\* The position of the first "." of s, or 0.
FirstDot(s) ==
    IF \E i \in 1..Len(s) : s[i] = "."
    THEN CHOOSE i \in 1..Len(s) : s[i] = "." /\ \A j \in 1..(i - 1) : s[j] # "."
    ELSE 0

\* Number(s) for a text made of digits, "." and "-" only: the numeric string
\* grammar (an optional sign, then digits, digits "." digits or "." digits);
\* the empty text is 0 and anything else is NaN.  The value is in hundredths;
\* the texts of the model carry at most two fraction digits.
StringToNumber(s) ==
    IF s = << >> THEN [nan |-> FALSE, n |-> 0]
    ELSE
      LET neg == s[1] = "-"
          body == IF neg THEN Tail(s) ELSE s
          dot == FirstDot(body)
          whole == IF dot = 0 THEN body ELSE SubSeq(body, 1, dot - 1)
          frac == IF dot = 0 THEN << >> ELSE SubSeq(body, dot + 1, Len(body))
          frac2 == [i \in 1..2 |-> IF i <= Len(frac) THEN frac[i] ELSE "0"]
          mag == Scale * DigitsValue(whole) + DigitsValue(frac2)
      IN IF ~IsDigits(whole) \/ ~IsDigits(frac) \/ (whole = << >> /\ frac = << >>)
         THEN [nan |-> TRUE, n |-> 0]
         ELSE [nan |-> FALSE, n |-> IF neg THEN -mag ELSE mag]

\* v.replace(/[^0-9.\-]/g, '')
StripNonNumeric(s) == SelectSeq(s, LAMBDA c : c \in Digit \cup {".", "-"})

parseNumber(v) ==
    IF v.t \in {"null", "undefined"} \/ v = Str(<< >>) THEN 0
    ELSE LET n == StringToNumber(StripNonNumeric(JsString(v)))
         IN IF n.nan THEN 0 ELSE n.n

(***************************************************************************)
(* Dates                                                                   *)
(***************************************************************************)

MsPerDay == 86400000

IsLeap(y) == (y % 4 = 0 /\ y % 100 # 0) \/ y % 400 = 0

DaysInMonth(y, m) ==
    IF m = 2 THEN (IF IsLeap(y) THEN 29 ELSE 28)
    ELSE IF m \in {4, 6, 9, 11} THEN 30 ELSE 31

\* The day number (days since 1970-01-01) of a calendar date.
DaysFromCivil(y, m, d) ==
    LET yy == IF m <= 2 THEN y - 1 ELSE y
        era == yy \div 400
        yoe == yy - era * 400
        mp == IF m > 2 THEN m - 3 ELSE m + 9
        doy == (153 * mp + 2) \div 5 + d - 1
        doe == yoe * 365 + yoe \div 4 - yoe \div 100 + doy
    IN era * 146097 + doe - 719468

\* The calendar date of a day number.
CivilFromDays(z) ==
    LET zz == z + 719468
        era == zz \div 146097
        doe == zz - era * 146097
        yoe == (doe - doe \div 1460 + doe \div 36524 - doe \div 146096) \div 365
        doy == doe - (365 * yoe + yoe \div 4 - yoe \div 100)
        mp == (5 * doy + 2) \div 153
        d == doy - (153 * mp + 2) \div 5 + 1
        m == IF mp < 10 THEN mp + 3 ELSE mp - 9
    IN [y |-> IF m <= 2 THEN yoe + era * 400 + 1 ELSE yoe + era * 400,
        m |-> m, d |-> d]

\* Date.prototype.toISOString().slice(0, 10) of a day number: YYYY-MM-DD for
\* the years 0 to 9999, and the first ten characters of the expanded form
\* (sign and six digits of year) outside them.
IsoSlice(day) ==
    LET c == CivilFromDays(day)
        full ==
            IF c.y >= 0 /\ c.y <= 9999
            THEN PadDigits(c.y, 4) \o <<"-">> \o PadDigits(c.m, 2)
                   \o <<"-">> \o PadDigits(c.d, 2)
            ELSE <<IF c.y < 0 THEN "-" ELSE "+">>
                   \o PadDigits(IF c.y < 0 THEN -c.y ELSE c.y, 6) \o <<"-">>
                   \o PadDigits(c.m, 2) \o <<"-">> \o PadDigits(c.d, 2)
    IN SubSeq(full, 1, 10)

DateSep == {"/", "-", "."}

\* The ES5 date-only form YYYY-MM-DD.
IsIsoDateOnly(s) ==
    /\ Len(s) = 10
    /\ s[5] = "-" /\ s[8] = "-"
    /\ \A i \in {1, 2, 3, 4, 6, 7, 9, 10} : s[i] \in Digit

\* A text that is exactly three runs of digits separated by "/", "-" or ".".
TripleSplits(s) ==
    {p \in (1..Len(s)) \X (1..Len(s)) :
        /\ p[1] > 1 /\ p[1] + 1 < p[2] /\ p[2] < Len(s)
        /\ s[p[1]] \in DateSep /\ s[p[2]] \in DateSep
        /\ \A i \in 1..Len(s) : i \notin {p[1], p[2]} => s[i] \in Digit}

IsTriple(s) == TripleSplits(s) # {}

TripleOf(s) ==
    LET p == CHOOSE q \in TripleSplits(s) : TRUE
    IN <<DigitsValue(SubSeq(s, 1, p[1] - 1)),
         DigitsValue(SubSeq(s, p[1] + 1, p[2] - 1)),
         DigitsValue(SubSeq(s, p[2] + 1, Len(s)))>>

Invalid == [valid |-> FALSE, day |-> 0]

\* The engines and time zones the page may run under.  Date.parse is fixed by
\* the language only for the ES5 forms; for every other text, and for a day
\* beyond the month's length, an engine may accept or reject:
\*   "strict"  accepts the date-only ES5 form with a real calendar day only;
\*   "v8east", "v8west"  the V8 parser: days 1..31 roll over into the next
\*             month, and any three numbers are read as month/day/year (or
\*             year/month/day when the first is no day) at local midnight,
\*             east (UTC+) or west (UTC, UTC-) of Greenwich.
Browsers == {"strict", "v8east", "v8west"}

\* new Date(text): the UTC day number of the instant, when valid.
DateFromText(s, browser) ==
    IF IsIsoDateOnly(s)
         /\ DigitsValue(SubSeq(s, 6, 7)) \in 1..12
         /\ DigitsValue(SubSeq(s, 9, 10)) \in
              1..(IF browser = "strict"
                  THEN DaysInMonth(DigitsValue(SubSeq(s, 1, 4)),
                                   DigitsValue(SubSeq(s, 6, 7)))
                  ELSE 31)
    THEN [valid |-> TRUE,
          day |-> DaysFromCivil(DigitsValue(SubSeq(s, 1, 4)),
                                DigitsValue(SubSeq(s, 6, 7)), 1)
                    + DigitsValue(SubSeq(s, 9, 10)) - 1]
    ELSE IF browser # "strict" /\ IsTriple(s)
    THEN LET t == TripleOf(s)
             ymd == t[1] \notin 1..31
             m == IF ymd THEN t[2] ELSE t[1]
             d == IF ymd THEN t[3] ELSE t[2]
             y0 == IF ymd THEN t[1] ELSE t[3]
             y == IF y0 \in 0..49 THEN y0 + 2000
                  ELSE IF y0 \in 50..99 THEN y0 + 1900 ELSE y0
         IN IF m \in 1..12 /\ d \in 1..31
            THEN [valid |-> TRUE,
                  day |-> DaysFromCivil(y, m, 1) + d - 1
                            - (IF browser = "v8east" THEN 1 ELSE 0)]
            ELSE Invalid
    ELSE Invalid

\* new Date(v) for a text or a number of milliseconds (truncated to an
\* integer; every number of the model is far inside the time-value range).
DateOf(v, browser) ==
    IF IsNum(v)
    THEN LET ms == IF v.n >= 0 THEN v.n \div Scale ELSE -((-v.n) \div Scale)
         IN [valid |-> TRUE, day |-> ms \div MsPerDay]
    ELSE DateFromText(v.s, browser)

\* The length of the run of digits of s that starts at position i.
RECURSIVE DigitRun(_, _)
DigitRun(s, i) ==
    IF i <= Len(s) /\ s[i] \in Digit THEN 1 + DigitRun(s, i + 1) ELSE 0

\* The matches of /(\d{1,2})[\/\-.](\d{1,2})[\/\-.](\d{2,4})/ in s, as
\* <<start, length of group 1, length of group 2>>.
DmyMatches(s) ==
    {p \in (1..Len(s)) \X {1, 2} \X {1, 2} :
        LET i == p[1]
            j == p[1] + p[2]
            k == p[1] + p[2] + 1 + p[3]
        IN /\ k <= Len(s)
           /\ \A x \in i..(j - 1) : s[x] \in Digit
           /\ s[j] \in DateSep
           /\ \A x \in (j + 1)..(k - 1) : s[x] \in Digit
           /\ s[k] \in DateSep
           /\ DigitRun(s, k + 1) >= 2}

\* v.match(...): the leftmost match, each group as long as it can be.
DmyMatch(s) ==
    LET ms == DmyMatches(s)
        p == CHOOSE q \in ms :
                \A r \in ms : q[1] < r[1] \/ (q[1] = r[1] /\ q[2] >= r[2]
                                               /\ (q[2] = r[2] => q[3] >= r[3]))
        j == p[1] + p[2]
        k == j + 1 + p[3]
        n == IF DigitRun(s, k + 1) > 4 THEN 4 ELSE DigitRun(s, k + 1)
    IN [day |-> SubSeq(s, p[1], j - 1),
        mon |-> SubSeq(s, j + 1, k - 1),
        yr |-> SubSeq(s, k + 1, k + n)]

TypeError == [t |-> "TypeError", s |-> << >>, n |-> 0]

Threw(v) == v.t = "TypeError"

normalizeDate(v, browser) ==
    IF ~Truthy(v) THEN Null
    ELSE IF DateOf(v, browser).valid THEN Str(IsoSlice(DateOf(v, browser).day))
    ELSE IF ~IsStr(v) THEN TypeError
    ELSE IF DmyMatches(v.s) # {}
    THEN LET m == DmyMatch(v.s)
             yr == IF Len(m.yr) = 2 THEN <<"2", "0">> \o m.yr ELSE m.yr
         IN Str(yr \o <<"-">> \o PadStart2(m.mon) \o <<"-">> \o PadStart2(m.day))
    ELSE Null

(***************************************************************************)
(* Row standardisation                                                     *)
(***************************************************************************)

\* The header names standardizeRows looks for.
kDate == <<"d", "a", "t", "e">>
kTimestamp == <<"t", "i", "m", "e", "s", "t", "a", "m", "p">>
kOrderDate == <<"o", "r", "d", "e", "r", "_", "d", "a", "t", "e">>
kCategory == <<"c", "a", "t", "e", "g", "o", "r", "y">>
kProductCategory ==
    <<"p", "r", "o", "d", "u", "c", "t", "_", "c", "a", "t", "e", "g", "o", "r", "y">>
kSegment == <<"s", "e", "g", "m", "e", "n", "t">>
kSales == <<"s", "a", "l", "e", "s">>
kRevenue == <<"r", "e", "v", "e", "n", "u", "e">>
kAmount == <<"a", "m", "o", "u", "n", "t">>
kOrders == <<"o", "r", "d", "e", "r", "s">>
kQty == <<"q", "t", "y">>
kCustomerId == <<"c", "u", "s", "t", "o", "m", "e", "r", "_", "i", "d">>
kCustomer == <<"c", "u", "s", "t", "o", "m", "e", "r">>
kUserId == <<"u", "s", "e", "r", "_", "i", "d">>

Unknown == <<"U", "n", "k", "n", "o", "w", "n">>

\* A raw record is the sequence of its <<key, value>> pairs, in key order.
\* lower[name] after the loop over Object.keys(r): the value of the last key
\* that trims and lower-cases to name, undefined when there is none.
Lower(r, name) ==
    LET hits == {i \in 1..Len(r) : ToLowerCase(Trim(r[i][1])) = name}
    IN IF hits = {} THEN Undefined
       ELSE r[CHOOSE i \in hits : \A j \in hits : j <= i][2]

\* One record through the first map of standardizeRows; "threw" when the
\* callback raises a TypeError (normalizeDate's v.match on a number, or
\* .trim on a number).
standardizeRow(r, browser) ==
    LET date == normalizeDate(
                   Or(Or(Or(Lower(r, kDate), Lower(r, kTimestamp)),
                         Lower(r, kOrderDate)), Str(<< >>)), browser)
        cat == Or(Or(Or(Lower(r, kCategory), Lower(r, kProductCategory)),
                     Lower(r, kSegment)), Str(Unknown))
        sales == parseNumber(Or(Or(Or(Lower(r, kSales), Lower(r, kRevenue)),
                                   Lower(r, kAmount)), Num(0)))
        orders == parseNumber(Or(Or(Lower(r, kOrders), Lower(r, kQty)),
                                 Num(Scale)))
        cust == Or(Or(Or(Lower(r, kCustomerId), Lower(r, kCustomer)),
                      Lower(r, kUserId)), Str(<< >>))
    IN IF Threw(date) \/ ~IsStr(cat)
       THEN [threw |-> TRUE,
             row |-> [date |-> Null, category |-> << >>, sales |-> 0,
                      orders |-> 0, customer_id |-> << >>]]
       ELSE [threw |-> FALSE,
             row |-> [date |-> date,
                      category |-> Trim(cat.s),
                      sales |-> sales,
                      orders |-> orders,
                      customer_id |-> JsString(cust)]]

\* standardizeRows leaving out the records that yield no date, the way a
\* filter after the map would.
RECURSIVE standardizeRowsDated(_, _)
standardizeRowsDated(rows, browser) ==
    IF rows = << >> THEN [threw |-> FALSE, rows |-> << >>]
    ELSE With(<<standardizeRow(rows[1], browser),
                standardizeRowsDated(Tail(rows), browser)>>,
              LAMBDA p :
                 IF p[1].threw \/ p[2].threw
                 THEN [threw |-> TRUE, rows |-> << >>]
                 ELSE [threw |-> FALSE,
                       rows |-> (IF p[1].row.date = Null THEN << >>
                                 ELSE <<p[1].row>>) \o p[2].rows])

\* rows.map(...).map(...): the rows in input order; the call throws as soon
\* as one record's callback throws.
RECURSIVE standardizeRows(_, _)
standardizeRows(rows, browser) ==
    IF rows = << >> THEN [threw |-> FALSE, rows |-> << >>]
    ELSE With(<<standardizeRow(rows[1], browser),
                standardizeRows(Tail(rows), browser)>>,
              LAMBDA p :
                 IF p[1].threw \/ p[2].threw
                 THEN [threw |-> TRUE, rows |-> << >>]
                 ELSE [threw |-> FALSE, rows |-> <<p[1].row>> \o p[2].rows])

(***************************************************************************)
(* The built-in sample                                                     *)
(***************************************************************************)

cElectronics == <<"E", "l", "e", "c", "t", "r", "o", "n", "i", "c", "s">>
cClothing == <<"C", "l", "o", "t", "h", "i", "n", "g">>
cHome == <<"H", "o", "m", "e">>
cGroceries == <<"G", "r", "o", "c", "e", "r", "i", "e", "s">>
cSports == <<"S", "p", "o", "r", "t", "s">>
cBeauty == <<"B", "e", "a", "u", "t", "y">>
cToys == <<"T", "o", "y", "s">>
cBooks == <<"B", "o", "o", "k", "s">>
cAutomotive == <<"A", "u", "t", "o", "m", "o", "t", "i", "v", "e">>

\* A row of the standard shape; sales and orders in hundredths, customer C<n>.
SampleRow(date, category, sales, orders, cust) ==
    [date |-> Str(date), category |-> category, sales |-> sales,
     orders |-> orders * Scale, customer_id |-> <<"C">> \o cust]

\* The sample of useSampleData, in source order.
sample ==
    <<
      SampleRow(<<"2", "0", "2", "5", "-", "0", "1", "-", "0", "2">>, cElectronics, 125050, 4, <<"0", "0", "1">>),
      SampleRow(<<"2", "0", "2", "5", "-", "0", "1", "-", "0", "3">>, cClothing, 42000, 2, <<"0", "0", "2">>),
      SampleRow(<<"2", "0", "2", "5", "-", "0", "1", "-", "0", "4">>, cElectronics, 98000, 3, <<"0", "0", "3">>),
      SampleRow(<<"2", "0", "2", "5", "-", "0", "1", "-", "0", "5">>, cHome, 15000, 1, <<"0", "0", "4">>),
      SampleRow(<<"2", "0", "2", "5", "-", "0", "1", "-", "0", "7">>, cGroceries, 24000, 5, <<"0", "0", "2">>),
      SampleRow(<<"2", "0", "2", "5", "-", "0", "2", "-", "0", "2">>, cElectronics, 130000, 6, <<"0", "0", "5">>),
      SampleRow(<<"2", "0", "2", "5", "-", "0", "2", "-", "1", "2">>, cClothing, 61000, 4, <<"0", "0", "6">>),
      SampleRow(<<"2", "0", "2", "5", "-", "0", "3", "-", "0", "1">>, cSports, 22000, 1, <<"0", "0", "7">>),
      SampleRow(<<"2", "0", "2", "5", "-", "0", "3", "-", "1", "5">>, cHome, 33000, 2, <<"0", "0", "4">>),
      SampleRow(<<"2", "0", "2", "5", "-", "0", "3", "-", "2", "0">>, cElectronics, 98000, 3, <<"0", "0", "1">>),
      SampleRow(<<"2", "0", "2", "5", "-", "0", "3", "-", "2", "5">>, cBeauty, 18050, 2, <<"0", "0", "8">>),
      SampleRow(<<"2", "0", "2", "5", "-", "0", "3", "-", "2", "8">>, cToys, 9500, 1, <<"0", "0", "9">>),
      SampleRow(<<"2", "0", "2", "5", "-", "0", "4", "-", "0", "2">>, cBooks, 4299, 1, <<"0", "1", "0">>),
      SampleRow(<<"2", "0", "2", "5", "-", "0", "4", "-", "0", "5">>, cElectronics, 210000, 5, <<"0", "1", "1">>),
      SampleRow(<<"2", "0", "2", "5", "-", "0", "4", "-", "0", "7">>, cClothing, 31500, 3, <<"0", "1", "2">>),
      SampleRow(<<"2", "0", "2", "5", "-", "0", "4", "-", "1", "0">>, cHome, 45000, 2, <<"0", "1", "3">>),
      SampleRow(<<"2", "0", "2", "5", "-", "0", "4", "-", "1", "4">>, cGroceries, 13525, 4, <<"0", "1", "4">>),
      SampleRow(<<"2", "0", "2", "5", "-", "0", "4", "-", "1", "8">>, cAutomotive, 78000, 2, <<"0", "1", "5">>),
      SampleRow(<<"2", "0", "2", "5", "-", "0", "4", "-", "2", "1">>, cSports, 29500, 3, <<"0", "1", "6">>),
      SampleRow(<<"2", "0", "2", "5", "-", "0", "4", "-", "2", "5">>, cBeauty, 15560, 2, <<"0", "1", "7">>),
      SampleRow(<<"2", "0", "2", "5", "-", "0", "5", "-", "0", "1">>, cElectronics, 180000, 6, <<"0", "1", "8">>),
      SampleRow(<<"2", "0", "2", "5", "-", "0", "5", "-", "0", "3">>, cHome, 22000, 1, <<"0", "1", "9">>),
      SampleRow(<<"2", "0", "2", "5", "-", "0", "5", "-", "0", "5">>, cToys, 14000, 2, <<"0", "2", "0">>),
      SampleRow(<<"2", "0", "2", "5", "-", "0", "5", "-", "0", "7">>, cClothing, 31000, 3, <<"0", "2", "1">>),
      SampleRow(<<"2", "0", "2", "5", "-", "0", "5", "-", "1", "0">>, cGroceries, 9850, 3, <<"0", "2", "2">>),
      SampleRow(<<"2", "0", "2", "5", "-", "0", "5", "-", "1", "2">>, cBooks, 6200, 1, <<"0", "2", "3">>),
      SampleRow(<<"2", "0", "2", "5", "-", "0", "5", "-", "1", "5">>, cBeauty, 20000, 3, <<"0", "2", "4">>),
      SampleRow(<<"2", "0", "2", "5", "-", "0", "5", "-", "1", "7">>, cAutomotive, 95000, 2, <<"0", "2", "5">>),
      SampleRow(<<"2", "0", "2", "5", "-", "0", "5", "-", "2", "0">>, cHome, 33000, 2, <<"0", "2", "6">>),
      SampleRow(<<"2", "0", "2", "5", "-", "0", "5", "-", "2", "3">>, cElectronics, 270000, 5, <<"0", "2", "7">>),
      SampleRow(<<"2", "0", "2", "5", "-", "0", "5", "-", "2", "5">>, cClothing, 15000, 1, <<"0", "2", "8">>),
      SampleRow(<<"2", "0", "2", "5", "-", "0", "5", "-", "2", "8">>, cGroceries, 12000, 4, <<"0", "2", "9">>),
      SampleRow(<<"2", "0", "2", "5", "-", "0", "6", "-", "0", "1">>, cSports, 34000, 3, <<"0", "3", "0">>),
      SampleRow(<<"2", "0", "2", "5", "-", "0", "6", "-", "0", "4">>, cBooks, 5500, 1, <<"0", "3", "1">>),
      SampleRow(<<"2", "0", "2", "5", "-", "0", "6", "-", "0", "7">>, cBeauty, 18000, 2, <<"0", "3", "2">>),
      SampleRow(<<"2", "0", "2", "5", "-", "0", "6", "-", "1", "0">>, cElectronics, 320000, 7, <<"0", "3", "3">>),
      SampleRow(<<"2", "0", "2", "5", "-", "0", "6", "-", "1", "4">>, cHome, 41000, 2, <<"0", "3", "4">>),
      SampleRow(<<"2", "0", "2", "5", "-", "0", "6", "-", "1", "7">>, cAutomotive, 89000, 2, <<"0", "3", "5">>),
      SampleRow(<<"2", "0", "2", "5", "-", "0", "6", "-", "2", "0">>, cGroceries, 11500, 3, <<"0", "3", "6">>),
      SampleRow(<<"2", "0", "2", "5", "-", "0", "6", "-", "2", "3">>, cClothing, 27500, 2, <<"0", "3", "7">>),
      SampleRow(<<"2", "0", "2", "5", "-", "0", "6", "-", "2", "6">>, cToys, 13000, 1, <<"0", "3", "8">>),
      SampleRow(<<"2", "0", "2", "5", "-", "0", "6", "-", "2", "9">>, cSports, 25000, 2, <<"0", "3", "9">>),
      SampleRow(<<"2", "0", "2", "5", "-", "0", "7", "-", "0", "2">>, cBooks, 8000, 1, <<"0", "4", "0">>),
      SampleRow(<<"2", "0", "2", "5", "-", "0", "7", "-", "0", "5">>, cBeauty, 21000, 3, <<"0", "4", "1">>),
      SampleRow(<<"2", "0", "2", "5", "-", "0", "7", "-", "0", "8">>, cHome, 29500, 2, <<"0", "4", "2">>),
      SampleRow(<<"2", "0", "2", "5", "-", "0", "7", "-", "1", "1">>, cElectronics, 170000, 5, <<"0", "4", "3">>),
      SampleRow(<<"2", "0", "2", "5", "-", "0", "7", "-", "1", "5">>, cClothing, 26500, 3, <<"0", "4", "4">>),
      SampleRow(<<"2", "0", "2", "5", "-", "0", "7", "-", "1", "8">>, cSports, 32000, 2, <<"0", "4", "5">>),
      SampleRow(<<"2", "0", "2", "5", "-", "0", "7", "-", "2", "1">>, cToys, 16000, 1, <<"0", "4", "6">>),
      SampleRow(<<"2", "0", "2", "5", "-", "0", "7", "-", "2", "4">>, cGroceries, 14000, 4, <<"0", "4", "7">>),
      SampleRow(<<"2", "0", "2", "5", "-", "0", "7", "-", "2", "7">>, cHome, 36000, 2, <<"0", "4", "8">>),
      SampleRow(<<"2", "0", "2", "5", "-", "0", "7", "-", "3", "0">>, cElectronics, 250000, 6, <<"0", "4", "9">>),
      SampleRow(<<"2", "0", "2", "5", "-", "0", "8", "-", "0", "2">>, cBooks, 7500, 1, <<"0", "5", "0">>),
      SampleRow(<<"2", "0", "2", "5", "-", "0", "8", "-", "0", "5">>, cBeauty, 19500, 2, <<"0", "5", "1">>),
      SampleRow(<<"2", "0", "2", "5", "-", "0", "8", "-", "0", "8">>, cAutomotive, 102000, 3, <<"0", "5", "2">>),
      SampleRow(<<"2", "0", "2", "5", "-", "0", "8", "-", "1", "2">>, cHome, 43000, 2, <<"0", "5", "3">>),
      SampleRow(<<"2", "0", "2", "5", "-", "0", "8", "-", "1", "5">>, cClothing, 34500, 3, <<"0", "5", "4">>),
      SampleRow(<<"2", "0", "2", "5", "-", "0", "8", "-", "1", "8">>, cGroceries, 12500, 5, <<"0", "5", "5">>),
      SampleRow(<<"2", "0", "2", "5", "-", "0", "8", "-", "2", "1">>, cSports, 28000, 2, <<"0", "5", "6">>),
      SampleRow(<<"2", "0", "2", "5", "-", "0", "8", "-", "2", "5">>, cElectronics, 195000, 4, <<"0", "5", "7">>),
      SampleRow(<<"2", "0", "2", "5", "-", "0", "8", "-", "2", "8">>, cBeauty, 21000, 3, <<"0", "5", "8">>),
      SampleRow(<<"2", "0", "2", "5", "-", "0", "9", "-", "0", "1">>, cClothing, 37500, 2, <<"0", "5", "9">>),
      SampleRow(<<"2", "0", "2", "5", "-", "0", "9", "-", "0", "3">>, cElectronics, 265000, 6, <<"0", "6", "0">>),
      SampleRow(<<"2", "0", "2", "5", "-", "0", "9", "-", "0", "5">>, cGroceries, 14500, 4, <<"0", "6", "1">>),
      SampleRow(<<"2", "0", "2", "5", "-", "0", "9", "-", "0", "7">>, cBooks, 6500, 1, <<"0", "6", "2">>),
      SampleRow(<<"2", "0", "2", "5", "-", "0", "9", "-", "0", "9">>, cBeauty, 18500, 2, <<"0", "6", "3">>),
      SampleRow(<<"2", "0", "2", "5", "-", "0", "9", "-", "1", "1">>, cHome, 37000, 2, <<"0", "6", "4">>),
      SampleRow(<<"2", "0", "2", "5", "-", "0", "9", "-", "1", "3">>, cSports, 41500, 3, <<"0", "6", "5">>),
      SampleRow(<<"2", "0", "2", "5", "-", "0", "9", "-", "1", "5">>, cToys, 14500, 1, <<"0", "6", "6">>),
      SampleRow(<<"2", "0", "2", "5", "-", "0", "9", "-", "1", "7">>, cAutomotive, 89000, 2, <<"0", "6", "7">>),
      SampleRow(<<"2", "0", "2", "5", "-", "0", "9", "-", "1", "9">>, cElectronics, 310000, 7, <<"0", "6", "8">>),
      SampleRow(<<"2", "0", "2", "5", "-", "0", "9", "-", "2", "1">>, cHome, 45000, 2, <<"0", "6", "9">>),
      SampleRow(<<"2", "0", "2", "5", "-", "0", "9", "-", "2", "3">>, cBooks, 7000, 1, <<"0", "7", "0">>),
      SampleRow(<<"2", "0", "2", "5", "-", "0", "9", "-", "2", "5">>, cBeauty, 23000, 3, <<"0", "7", "1">>),
      SampleRow(<<"2", "0", "2", "5", "-", "0", "9", "-", "2", "7">>, cClothing, 28000, 3, <<"0", "7", "2">>),
      SampleRow(<<"2", "0", "2", "5", "-", "0", "9", "-", "2", "9">>, cGroceries, 11000, 3, <<"0", "7", "3">>),
      SampleRow(<<"2", "0", "2", "5", "-", "0", "9", "-", "3", "0">>, cElectronics, 185000, 4, <<"0", "7", "4">>),
      SampleRow(<<"2", "0", "2", "5", "-", "1", "0", "-", "0", "2">>, cSports, 32000, 2, <<"0", "7", "5">>),
      SampleRow(<<"2", "0", "2", "5", "-", "1", "0", "-", "0", "4">>, cToys, 14000, 1, <<"0", "7", "6">>),
      SampleRow(<<"2", "0", "2", "5", "-", "1", "0", "-", "0", "6">>, cBooks, 8800, 1, <<"0", "7", "7">>),
      SampleRow(<<"2", "0", "2", "5", "-", "1", "0", "-", "0", "8">>, cAutomotive, 105000, 3, <<"0", "7", "8">>),
      SampleRow(<<"2", "0", "2", "5", "-", "1", "0", "-", "1", "0">>, cHome, 39000, 2, <<"0", "7", "9">>),
      SampleRow(<<"2", "0", "2", "5", "-", "1", "0", "-", "1", "2">>, cBeauty, 21000, 2, <<"0", "8", "0">>),
      SampleRow(<<"2", "0", "2", "5", "-", "1", "0", "-", "1", "4">>, cClothing, 31500, 2, <<"0", "8", "1">>),
      SampleRow(<<"2", "0", "2", "5", "-", "1", "0", "-", "1", "6">>, cGroceries, 9500, 3, <<"0", "8", "2">>),
      SampleRow(<<"2", "0", "2", "5", "-", "1", "0", "-", "1", "8">>, cElectronics, 240000, 5, <<"0", "8", "3">>),
      SampleRow(<<"2", "0", "2", "5", "-", "1", "0", "-", "2", "0">>, cSports, 35500, 3, <<"0", "8", "4">>),
      SampleRow(<<"2", "0", "2", "5", "-", "1", "0", "-", "2", "2">>, cHome, 41000, 2, <<"0", "8", "5">>),
      SampleRow(<<"2", "0", "2", "5", "-", "1", "0", "-", "2", "4">>, cBooks, 7700, 1, <<"0", "8", "6">>),
      SampleRow(<<"2", "0", "2", "5", "-", "1", "0", "-", "2", "6">>, cBeauty, 19500, 2, <<"0", "8", "7">>),
      SampleRow(<<"2", "0", "2", "5", "-", "1", "0", "-", "2", "8">>, cAutomotive, 112000, 3, <<"0", "8", "8">>),
      SampleRow(<<"2", "0", "2", "5", "-", "1", "0", "-", "3", "0">>, cToys, 15500, 2, <<"0", "8", "9">>),
      SampleRow(<<"2", "0", "2", "5", "-", "1", "1", "-", "0", "1">>, cClothing, 44000, 3, <<"0", "9", "0">>),
      SampleRow(<<"2", "0", "2", "5", "-", "1", "1", "-", "0", "3">>, cElectronics, 265000, 6, <<"0", "9", "1">>),
      SampleRow(<<"2", "0", "2", "5", "-", "1", "1", "-", "0", "5">>, cHome, 38500, 2, <<"0", "9", "2">>),
      SampleRow(<<"2", "0", "2", "5", "-", "1", "1", "-", "0", "7">>, cGroceries, 13000, 4, <<"0", "9", "3">>),
      SampleRow(<<"2", "0", "2", "5", "-", "1", "1", "-", "0", "9">>, cBeauty, 21000, 3, <<"0", "9", "4">>),
      SampleRow(<<"2", "0", "2", "5", "-", "1", "1", "-", "1", "1">>, cBooks, 6000, 1, <<"0", "9", "5">>),
      SampleRow(<<"2", "0", "2", "5", "-", "1", "1", "-", "1", "3">>, cToys, 16000, 1, <<"0", "9", "6">>),
      SampleRow(<<"2", "0", "2", "5", "-", "1", "1", "-", "1", "5">>, cSports, 39000, 3, <<"0", "9", "7">>),
      SampleRow(<<"2", "0", "2", "5", "-", "1", "1", "-", "1", "7">>, cHome, 33000, 2, <<"0", "9", "8">>),
      SampleRow(<<"2", "0", "2", "5", "-", "1", "1", "-", "1", "9">>, cClothing, 28500, 2, <<"0", "9", "9">>),
      SampleRow(<<"2", "0", "2", "5", "-", "1", "1", "-", "2", "1">>, cAutomotive, 92000, 2, <<"1", "0", "0">>),
      SampleRow(<<"2", "0", "2", "5", "-", "1", "1", "-", "2", "3">>, cElectronics, 310000, 7, <<"1", "0", "1">>),
      SampleRow(<<"2", "0", "2", "5", "-", "1", "1", "-", "2", "5">>, cBeauty, 24000, 3, <<"1", "0", "2">>),
      SampleRow(<<"2", "0", "2", "5", "-", "1", "1", "-", "2", "7">>, cHome, 38000, 2, <<"1", "0", "3">>),
      SampleRow(<<"2", "0", "2", "5", "-", "1", "1", "-", "2", "9">>, cBooks, 6500, 1, <<"1", "0", "4">>),
      SampleRow(<<"2", "0", "2", "5", "-", "1", "2", "-", "0", "1">>, cToys, 19000, 2, <<"1", "0", "5">>),
      SampleRow(<<"2", "0", "2", "5", "-", "1", "2", "-", "0", "3">>, cElectronics, 420000, 8, <<"1", "0", "6">>),
      SampleRow(<<"2", "0", "2", "5", "-", "1", "2", "-", "0", "5">>, cClothing, 31000, 3, <<"1", "0", "7">>),
      SampleRow(<<"2", "0", "2", "5", "-", "1", "2", "-", "0", "7">>, cGroceries, 12000, 4, <<"1", "0", "8">>),
      SampleRow(<<"2", "0", "2", "5", "-", "1", "2", "-", "0", "9">>, cBeauty, 26000, 3, <<"1", "0", "9">>),
      SampleRow(<<"2", "0", "2", "5", "-", "1", "2", "-", "1", "1">>, cBooks, 9500, 1, <<"1", "1", "0">>),
      SampleRow(<<"2", "0", "2", "5", "-", "1", "2", "-", "1", "3">>, cHome, 49000, 3, <<"1", "1", "1">>),
      SampleRow(<<"2", "0", "2", "5", "-", "1", "2", "-", "1", "5">>, cSports, 46000, 3, <<"1", "1", "2">>),
      SampleRow(<<"2", "0", "2", "5", "-", "1", "2", "-", "1", "7">>, cAutomotive, 115000, 3, <<"1", "1", "3">>),
      SampleRow(<<"2", "0", "2", "5", "-", "1", "2", "-", "1", "9">>, cClothing, 35500, 3, <<"1", "1", "4">>),
      SampleRow(<<"2", "0", "2", "5", "-", "1", "2", "-", "2", "1">>, cElectronics, 390000, 6, <<"1", "1", "5">>),
      SampleRow(<<"2", "0", "2", "5", "-", "1", "2", "-", "2", "3">>, cToys, 26000, 2, <<"1", "1", "6">>),
      SampleRow(<<"2", "0", "2", "5", "-", "1", "2", "-", "2", "5">>, cBeauty, 31000, 3, <<"1", "1", "7">>),
      SampleRow(<<"2", "0", "2", "5", "-", "1", "2", "-", "2", "7">>, cHome, 42000, 2, <<"1", "1", "8">>),
      SampleRow(<<"2", "0", "2", "5", "-", "1", "2", "-", "2", "9">>, cGroceries, 15000, 4, <<"1", "1", "9">>),
      SampleRow(<<"2", "0", "2", "5", "-", "1", "2", "-", "3", "1">>, cElectronics, 450000, 9, <<"1", "2", "0">>)
    >>

(***************************************************************************)
(* Filtering, KPIs, chart series and the table preview                     *)
(***************************************************************************)

\* The value of the "All categories" option.
All == <<"_", "_", "a", "l", "l", "_", "_">>

\* The callback with the date tests made without the "r.date &&" guard, so
\* that a row with no date falls outside every range.
KeepRowDated(r, cat, from, to) ==
    IF cat # All /\ r.category # cat THEN FALSE
    ELSE IF from # << >> /\ (~Truthy(r.date) \/ StrLess(r.date.s, from)) THEN FALSE
    ELSE IF to # << >> /\ (~Truthy(r.date) \/ StrLess(to, r.date.s)) THEN FALSE
    ELSE TRUE

\* The callback of rawData.filter in getFilteredData, with cat, from and to
\* already defaulted ("" for a null bound).
KeepRow(r, cat, from, to) ==
    IF cat # All /\ r.category # cat THEN FALSE
    ELSE IF from # << >> /\ Truthy(r.date) /\ StrLess(r.date.s, from) THEN FALSE
    ELSE IF to # << >> /\ Truthy(r.date) /\ StrLess(to, r.date.s) THEN FALSE
    ELSE TRUE

\* getFilteredData, reading the three controls' values.
getFilteredData(rows, catValue, fromValue, toValue) ==
    LET cat == IF catValue = << >> THEN All ELSE catValue
    IN SelectSeq(rows, LAMBDA r : KeepRow(r, cat, fromValue, toValue))

\* data.reduce((s, x) => s + (Number(x.sales) || 0), 0)
RECURSIVE SumSales(_, _)
SumSales(data, n) ==
    IF n = 0 THEN 0 ELSE SumSales(data, n - 1) + data[n].sales

\* data.reduce((s, x) => s + (Number(x.orders) || 0), 0)
RECURSIVE SumOrders(_, _)
SumOrders(data, n) ==
    IF n = 0 THEN 0 ELSE SumOrders(data, n - 1) + data[n].orders

totalSales(data) == SumSales(data, Len(data))

\* The sum of orders with 1 taken for every row that has 0 orders.
RECURSIVE SumOrdersPerRow(_, _)
SumOrdersPerRow(data, n) ==
    IF n = 0 THEN 0
    ELSE SumOrdersPerRow(data, n - 1)
           + (IF data[n].orders = 0 THEN Scale ELSE data[n].orders)

totalOrdersPerRow(data) ==
    IF SumOrdersPerRow(data, Len(data)) = 0 THEN Scale
    ELSE SumOrdersPerRow(data, Len(data))

\* ... || 1
totalOrders(data) ==
    IF SumOrders(data, Len(data)) = 0 THEN Scale ELSE SumOrders(data, Len(data))

uniqCust(data) ==
    Cardinality({data[i].customer_id : i \in {j \in 1..Len(data) :
                                                data[j].customer_id # << >>}})

Abs(n) == IF n < 0 THEN -n ELSE n

\* Number.prototype.toFixed(2) of the quotient a / b of two numbers, as a
\* number of hundredths and a sign: the nearest hundredth of the magnitude,
\* the larger one on a tie, with "-" whenever the quotient is below zero.
\* (The rounding is of the exact quotient; the binary rounding of the
\* division itself is not modelled.)
FixedQuotient(a, b) ==
    LET q == (Scale * Abs(a)) \div Abs(b)
        r == (Scale * Abs(a)) % Abs(b)
    IN [neg |-> (a < 0 /\ b > 0) \/ (a > 0 /\ b < 0),
        mag |-> IF 2 * r >= Abs(b) THEN q + 1 ELSE q]

\* The text toFixed(2) returns.
FixedText(f) ==
    (IF f.neg THEN <<"-">> ELSE << >>) \o NatToDigits(f.mag \div Scale)
        \o <<".">> \o PadDigits(f.mag % Scale, 2)

\* An own property name that is an array index ("0", "17"; no sign, no
\* leading zero): Object.keys lists these first, in ascending numeric order.
\* Names of at most nine digits are considered.
IsIndexKey(k) ==
    /\ k # << >> /\ Len(k) <= 9 /\ IsDigits(k)
    /\ (k[1] = "0" => Len(k) = 1)

\* agg[c] = (agg[c] || 0) + sales, agg listed in the order of Object.keys.
AggAdd(agg, c, sales) ==
    IF \E i \in 1..Len(agg) : agg[i].k = c
    THEN [i \in 1..Len(agg) |->
            IF agg[i].k = c THEN [k |-> c, v |-> agg[i].v + sales] ELSE agg[i]]
    ELSE IF IsIndexKey(c)
    THEN LET before == {i \in 1..Len(agg) :
                          IsIndexKey(agg[i].k)
                          /\ DigitsValue(agg[i].k) < DigitsValue(c)}
             pos == Cardinality(before)
         IN SubSeq(agg, 1, pos) \o <<[k |-> c, v |-> sales]>>
              \o SubSeq(agg, pos + 1, Len(agg))
    ELSE Append(agg, [k |-> c, v |-> sales])

RECURSIVE CategoryAgg(_, _)
CategoryAgg(data, n) ==
    IF n = 0 THEN << >>
    ELSE With(CategoryAgg(data, n - 1),
              LAMBDA agg :
                 AggAdd(agg,
                        IF data[n].category = << >> THEN Unknown
                        ELSE data[n].category,
                        data[n].sales))

\* labels.sort((a, b) => agg[b] - agg[a]): a stable sort, largest sum first.
RECURSIVE SortBySalesDesc(_)
SortBySalesDesc(entries) ==
    IF entries = << >> THEN << >>
    ELSE With(SortBySalesDesc(SubSeq(entries, 1, Len(entries) - 1)),
              LAMBDA front :
                 LET x == entries[Len(entries)]
                     pos == Cardinality({i \in 1..Len(front) : front[i].v >= x.v})
                 IN SubSeq(front, 1, pos) \o <<x>>
                      \o SubSeq(front, pos + 1, Len(front)))

\* The labels and the values handed to the bar chart.
renderCategoryChart(data) ==
    With(SortBySalesDesc(CategoryAgg(data, Len(data))),
         LAMBDA sorted :
            [labels |-> [i \in 1..Len(sorted) |-> sorted[i].k],
             values |-> [i \in 1..Len(sorted) |-> sorted[i].v]])

kUnknown == <<"u", "n", "k", "n", "o", "w", "n">>
kNull == <<"n", "u", "l", "l">>
kUndefined == <<"u", "n", "d", "e", "f", "i", "n", "e", "d">>

\* The last position of list (from i down) whose key is not above k, or 0.
RECURSIVE LastNotAbove(_, _, _)
LastNotAbove(list, i, k) ==
    IF i = 0 \/ ~StrLess(k, list[i].k) THEN i
    ELSE LastNotAbove(list, i - 1, k)

\* byDate[d] = (byDate[d] || 0) + sales, with the entries of byDate kept in
\* ascending key order, the order Object.keys(byDate)...sort() reads them in
\* (the keys are distinct, so that order does not depend on insertion order).
ByDateAdd(list, d, sales) ==
    With(LastNotAbove(list, Len(list), d),
         LAMBDA pos :
            IF pos > 0 /\ list[pos].k = d
            THEN [list EXCEPT ![pos] = [k |-> d, v |-> list[pos].v + sales]]
            ELSE SubSeq(list, 1, pos) \o <<[k |-> d, v |-> sales]>>
                   \o SubSeq(list, pos + 1, Len(list)))

RECURSIVE byDate(_, _)
byDate(data, n) ==
    IF n = 0 THEN << >>
    ELSE With(byDate(data, n - 1),
              LAMBDA list :
                 ByDateAdd(list,
                           IF Truthy(data[n].date) THEN data[n].date.s
                           ELSE kUnknown,
                           data[n].sales))

\* The series with the "unknown" key filtered out as well.
renderTimeSeriesDated(data) ==
    With(SelectSeq(byDate(data, Len(data)),
                   LAMBDA e : e.k \notin {kNull, kUndefined, kUnknown}),
         LAMBDA dates :
            [labels |-> [i \in 1..Len(dates) |-> dates[i].k],
             values |-> [i \in 1..Len(dates) |-> dates[i].v]])

\* The labels and the values handed to the line chart.
renderTimeSeries(data) ==
    With(SelectSeq(byDate(data, Len(data)),
                   LAMBDA e : e.k # kNull /\ e.k # kUndefined),
         LAMBDA dates :
            [labels |-> [i \in 1..Len(dates) |-> dates[i].k],
             values |-> [i \in 1..Len(dates) |-> dates[i].v]])

EscapeChar(c) ==
    CASE c = "&" -> <<"&", "a", "m", "p", ";">>
      [] c = "<" -> <<"&", "l", "t", ";">>
      [] c = ">" -> <<"&", "g", "t", ";">>
      [] c = "\"" -> <<"&", "q", "u", "o", "t", ";">>
      [] c = "'" -> <<"&", "#", "0", "3", "9", ";">>
      [] OTHER -> <<c>>

RECURSIVE escapeHtml(_)
escapeHtml(str) ==
    IF str = << >> THEN << >>
    ELSE EscapeChar(str[1]) \o escapeHtml(Tail(str))

\* The column names, Object.keys of a row.
Cols == <<kDate, kCategory, kSales, kOrders, kCustomerId>>

\* r[c] as a value, for the columns in order.
Fields(r) ==
    <<r.date, Str(r.category), Num(r.sales), Num(r.orders), Str(r.customer_id)>>

\* String(r[c] ?? '')
CellText(v) == IF v.t \in {"null", "undefined"} THEN << >> ELSE JsString(v)

PreviewRows == 5
PreviewSlice == 200

Min(a, b) == IF a < b THEN a ELSE b

\* The table written by renderTable: its header cells and its body cells as
\* HTML text; both empty for the "No rows to show." notice.
renderTable(rows) ==
    IF rows = << >> THEN [head |-> << >>, body |-> << >>]
    ELSE With(SubSeq(rows, 1, Min(PreviewRows, Len(rows))),
              LAMBDA previewRows :
                 [head |-> [c \in 1..Len(Cols) |-> escapeHtml(Cols[c])],
                  body |-> [i \in 1..Len(previewRows) |->
                              [c \in 1..Len(Cols) |->
                                 escapeHtml(CellText(Fields(previewRows[i])[c]))]]])

\* What one run of refreshDashboard computes and shows.  The KPI texts are
\* the toFixed(2) texts handed to fmtCurrency, which renders them in the
\* host's locale.
refreshDashboard(rows, catValue, fromValue, toValue) ==
    With(getFilteredData(rows, catValue, fromValue, toValue),
         LAMBDA data :
            [data |-> data,
             kpiTotal |-> FixedText(FixedQuotient(totalSales(data), Scale)),
             kpiAvg |-> FixedText(FixedQuotient(totalSales(data),
                                                totalOrders(data))),
             kpiCust |-> uniqCust(data),
             chartCategory |-> renderCategoryChart(data),
             chartTime |-> renderTimeSeries(data),
             table |-> renderTable(SubSeq(data, 1, Min(PreviewSlice, Len(data))))])

\* Array.prototype.sort() on texts: ascending by code units.
RECURSIVE SortTexts(_)
SortTexts(seq) ==
    IF seq = << >> THEN << >>
    ELSE With(SortTexts(SubSeq(seq, 1, Len(seq) - 1)),
              LAMBDA front :
                 LET x == seq[Len(seq)]
                     pos == Cardinality({i \in 1..Len(front) :
                                           ~StrLess(x, front[i])})
                 IN SubSeq(front, 1, pos) \o <<x>>
                      \o SubSeq(front, pos + 1, Len(front)))

\* The distinct categories in first-seen order (the Set's order).
RECURSIVE Categories(_, _)
Categories(rows, n) ==
    IF n = 0 THEN << >>
    ELSE With(Categories(rows, n - 1),
              LAMBDA front :
                 IF \E i \in 1..Len(front) : front[i] = rows[n].category
                 THEN front ELSE Append(front, rows[n].category))

\* The option values populateCategoryFilter writes: "__all__", then the
\* non-empty categories sorted.  Each value is written through escapeHtml
\* into a quoted attribute, which the HTML parser reads back unchanged.
populateCategoryFilter(rows) ==
    <<All>> \o SortTexts(SelectSeq(Categories(rows, Len(rows)),
                                   LAMBDA c : c # << >>))

(***************************************************************************)
(* Export                                                                  *)
(***************************************************************************)

\* String(v).replace(/"/g, '""')
RECURSIVE DoubleQuotes(_)
DoubleQuotes(t) ==
    IF t = << >> THEN << >>
    ELSE (IF t[1] = "\"" THEN <<"\"", "\"">> ELSE <<t[1]>>)
           \o DoubleQuotes(Tail(t))

\* One field of a line: quoted when it holds a comma or a quote.
CsvField(v) ==
    LET t == DoubleQuotes(CellText(v))
    IN IF \E i \in 1..Len(t) : t[i] \in {",", "\""}
       THEN <<"\"">> \o t \o <<"\"">>
       ELSE t

\* The text downloadCleanCsv puts in clean_data.csv, for a non-empty rows.
CsvText(rows) ==
    Join(<<Join(Cols, <<",">>)>>
           \o [i \in 1..Len(rows) |->
                 Join([c \in 1..Len(Cols) |-> CsvField(Fields(rows[i])[c])],
                      <<",">>)],
         <<"\n">>)

NoDataNotice == "No data to download."
ParseErrorNotice == "CSV parse error: "

\* downloadCleanCsv(rows): the alerts raised and the files written.
downloadCleanCsv(rows) ==
    IF rows = << >>
    THEN [alerts |-> <<NoDataNotice>>, files |-> << >>]
    ELSE [alerts |-> << >>, files |-> <<CsvText(rows)>>]

(***************************************************************************)
(* The files a user may pick                                               *)
(***************************************************************************)

\* A parsed row as PapaParse delivers it with header: true: one text value
\* per header field.
Rec(header, values) == [i \in 1..Len(header) |-> <<header[i], Str(values[i])>>]

HeaderPlain == <<kDate, kCategory, kSales, kOrders, kCustomerId>>

HeaderMessy ==
    << <<" ", "C", "a", "t", "e", "g", "o", "r", "y", " ">>,
       <<"R", "e", "v", "e", "n", "u", "e">>,
       <<"Q", "T", "Y">>,
       <<"C", "u", "s", "t", "o", "m", "e", "r">>,
       <<"O", "r", "d", "e", "r", "_", "D", "a", "t", "e">> >>

Jan01 == <<"2", "0", "2", "5", "-", "0", "1", "-", "0", "1">>
Feb01 == <<"2", "0", "2", "5", "-", "0", "2", "-", "0", "1">>

FilePlain ==
    << Rec(HeaderPlain, <<Jan01, <<"A">>, <<"1", "0", "0">>, <<"2">>, <<"A">>>>),
       Rec(HeaderPlain, << << >>, <<"A">>, <<"5", "0">>, <<"0">>, <<"A">>>>),
       Rec(HeaderPlain, <<Feb01, <<"B">>, <<"4", "0">>, <<"0">>, << >>>>),
       Rec(HeaderPlain, <<Jan01, <<"B">>, <<"2", "5", ".", "5">>, <<"1">>, <<"B">>>>) >>

FileMessy ==
    << Rec(HeaderMessy, << <<" ", "a", ",", "b", " ">>,
                           <<"$", "1", ",", "2", "5", "0", ".", "5", "0">>,
                           <<"3">>, <<"c", " ", "1">>,
                           <<"1", "3", "/", "0", "1", "/", "2", "0", "2", "5">> >>),
       Rec(HeaderMessy, << <<" ", " ">>, <<"a", "b", "c">>, << >>, << >>,
                           <<"0", "2", "/", "0", "1", "/", "2", "0", "2", "5">> >>),
       Rec(HeaderMessy, << <<"x", "\"", "y", "\n", "z">>, <<"7">>, <<"0">>,
                           <<"c", " ", "1">>, <<"n", "/", "a">> >>) >>

FileHeaderOnly == << >>

Files == <<FilePlain, FileMessy, FileHeaderOnly>>

\* The dates a user may put in the two date inputs ("" clears the input).
DateInputs == {<< >>, Feb01}

(***************************************************************************)
(* The page                                                                *)
(***************************************************************************)

\* How many rows of the sample the model loads (the sample has 123).
SampleRows == 6

\* How many file parses may be in flight at once.
MaxPending == 2

VARIABLES
    browser,         \* the engine and time zone the page runs under
    loaded,          \* DOMContentLoaded has been handled
    rawData,         \* the row set
    categoryFilter,  \* the select: its option values and its value
    dateFrom,        \* the value of the "from" input
    dateTo,          \* the value of the "to" input
    dashboard,       \* what the last run of refreshDashboard computed and showed
    downloadHidden,  \* the download button still carries the class "hidden"
    pending,         \* the files whose parse is in flight (indices of Files)
    overtaken,       \* per parse in flight, the load that completed since it
                     \* was requested; and the same for the parse just completed
    handled,         \* the last event handled and what its handler did
    input,           \* raw records handed to standardizeRows on their own
    stage,           \* how far that input has been taken
    normalized,      \* standardizeRows(input)
    renormalized,    \* standardizeRows of the normalized rows, fed back
    exported         \* downloadCleanCsv of the normalized rows

pageVars ==
    <<browser, loaded, rawData, categoryFilter, dateFrom, dateTo, dashboard,
      downloadHidden, pending, overtaken, handled>>

fnVars == <<input, stage, normalized, renormalized, exported>>

vars == <<pageVars, fnVars>>

NoDashboard ==
    [data |-> << >>, kpiTotal |-> << >>, kpiAvg |-> << >>, kpiCust |-> 0,
     chartCategory |-> [labels |-> << >>, values |-> << >>],
     chartTime |-> [labels |-> << >>, values |-> << >>],
     table |-> [head |-> << >>, body |-> << >>]]

\* What a handler did: the runs of refreshDashboard, the alerts raised and
\* the files written, with the file the event was about (0 for none).
Did(event, file, renders, alerts, files) ==
    [event |-> event, file |-> file, renders |-> renders, alerts |-> alerts,
     files |-> files]

\* by: for each parse in flight, "sample" or "file" when a load requested
\* after it has completed since, "none" otherwise.  done: that entry of the
\* parse whose complete callback has just run ("none" after other events).
Flight(by, done) == [by |-> by, done |-> done]

InitPage ==
    /\ browser \in Browsers
    /\ loaded = FALSE
    /\ rawData = << >>
    /\ categoryFilter = [options |-> << >>, value |-> << >>]
    /\ dateFrom = << >>
    /\ dateTo = << >>
    /\ dashboard = NoDashboard
    /\ downloadHidden = TRUE
    /\ pending = << >>
    /\ overtaken = Flight(<< >>, "none")
    /\ handled = Did("none", 0, 0, << >>, << >>)

\* afterDataLoad on a row set to which the new rows were added rather than
\* assigned.
afterDataLoadMerging(rows) ==
    /\ rawData' = rawData \o rows
    /\ categoryFilter' = [options |-> populateCategoryFilter(rawData \o rows),
                          value |-> All]
    /\ dashboard' = refreshDashboard(rawData \o rows, All, dateFrom, dateTo)
    /\ downloadHidden' = FALSE

\* afterDataLoad, once rawData holds rows: the options are rewritten, which
\* leaves the first one ("__all__") selected, the dashboard is refreshed and
\* the download button is shown.
afterDataLoad(rows) ==
    /\ rawData' = rows
    /\ categoryFilter' = [options |-> populateCategoryFilter(rows), value |-> All]
    /\ dashboard' = refreshDashboard(rows, All, dateFrom, dateTo)
    /\ downloadHidden' = FALSE

\* useSampleData's copy of the sample.
useSampleData == SubSeq(sample, 1, Min(SampleRows, Len(sample)))

DOMContentLoaded ==
    /\ ~loaded
    /\ loaded' = TRUE
    /\ \E rows \in {useSampleData} : afterDataLoad(rows)
    /\ handled' = Did("DOMContentLoaded", 0, 1, << >>, << >>)
    /\ UNCHANGED fnVars
    /\ overtaken' = Flight(<< >>, "none")
    /\ UNCHANGED <<browser, dateFrom, dateTo, pending>>

\* A click on "use sample".
UseSample ==
    /\ loaded
    /\ \E rows \in {useSampleData} : afterDataLoad(rows)
    /\ handled' = Did("useSample", 0, 1, << >>, << >>)
    /\ UNCHANGED fnVars
    /\ overtaken' = Flight([j \in 1..Len(pending) |-> "sample"], "none")
    /\ UNCHANGED <<browser, loaded, dateFrom, dateTo, pending>>

\* handleFile: a change of the file input; f = 0 when no file is chosen.
\* Papa.parse starts reading and returns; the callbacks run later.
HandleFile(f) ==
    /\ loaded
    /\ Len(pending) < MaxPending
    /\ pending' = IF f = 0 THEN pending ELSE Append(pending, f)
    /\ overtaken' = Flight(IF f = 0 THEN overtaken.by
                            ELSE Append(overtaken.by, "none"), "none")
    /\ handled' = Did("handleFile", f, 0, << >>, << >>)
    /\ UNCHANGED fnVars
    /\ UNCHANGED <<browser, loaded, rawData, categoryFilter, dateFrom, dateTo,
                   dashboard, downloadHidden>>

Remove(seq, i) == SubSeq(seq, 1, i - 1) \o SubSeq(seq, i + 1, Len(seq))

\* The complete callback with a generation check: the rows of a parse that
\* a later load has overtaken are discarded.
ParseCompleteGuarded(i) ==
    /\ i \in 1..Len(pending)
    /\ pending' = Remove(pending, i)
    /\ \E std \in {standardizeRows(Files[pending[i]], browser)} :
          IF std.threw \/ overtaken.by[i] # "none"
          THEN /\ handled' = Did("complete", pending[i], 0, << >>, << >>)
               /\ overtaken' = Flight(Remove(overtaken.by, i), overtaken.by[i])
               /\ UNCHANGED <<rawData, categoryFilter, dashboard, downloadHidden>>
          ELSE /\ afterDataLoad(std.rows)
               /\ handled' = Did("complete", pending[i], 1, << >>, << >>)
               /\ overtaken' =
                     Flight([j \in 1..(Len(pending) - 1) |->
                               IF j < i THEN "file" ELSE overtaken.by[j + 1]],
                            overtaken.by[i])
    /\ UNCHANGED fnVars
    /\ UNCHANGED <<browser, loaded, dateFrom, dateTo>>

\* The complete callback of the i-th parse in flight.  Should standardizeRows
\* throw, the callback ends there: rawData keeps its value and nothing runs.
ParseComplete(i) ==
    /\ i \in 1..Len(pending)
    /\ pending' = Remove(pending, i)
    /\ \E std \in {standardizeRows(Files[pending[i]], browser)} :
          IF std.threw
          THEN /\ handled' = Did("complete", pending[i], 0, << >>, << >>)
               /\ overtaken' = Flight(Remove(overtaken.by, i), "none")
               /\ UNCHANGED <<rawData, categoryFilter, dashboard, downloadHidden>>
          ELSE /\ afterDataLoad(std.rows)
               /\ handled' = Did("complete", pending[i], 1, << >>, << >>)
               /\ overtaken' =
                     Flight([j \in 1..(Len(pending) - 1) |->
                               IF j < i THEN "file" ELSE overtaken.by[j + 1]],
                            overtaken.by[i])
    /\ UNCHANGED fnVars
    /\ UNCHANGED <<browser, loaded, dateFrom, dateTo>>

\* The error callback raising its notice and then starting the parse of the
\* same file again.
ParseErrorRetrying(i) ==
    /\ i \in 1..Len(pending)
    /\ pending' = Append(Remove(pending, i), pending[i])
    /\ overtaken' = Flight(Append(Remove(overtaken.by, i), "none"), "none")
    /\ handled' = Did("error", pending[i], 0, <<ParseErrorNotice>>, << >>)
    /\ UNCHANGED fnVars
    /\ UNCHANGED <<browser, loaded, rawData, categoryFilter, dateFrom, dateTo,
                   dashboard, downloadHidden>>

\* The error callback of the i-th parse in flight (the file could not be read).
ParseError(i) ==
    /\ i \in 1..Len(pending)
    /\ pending' = Remove(pending, i)
    /\ overtaken' = Flight(Remove(overtaken.by, i), "none")
    /\ handled' = Did("error", pending[i], 0, <<ParseErrorNotice>>, << >>)
    /\ UNCHANGED fnVars
    /\ UNCHANGED <<browser, loaded, rawData, categoryFilter, dateFrom, dateTo,
                   dashboard, downloadHidden>>

\* Every value an option of the category select can have: "__all__" and the
\* categories of the data that can be loaded.
OptionValues ==
    {All} \cup {sample[i].category : i \in 1..Len(sample)}
          \cup UNION {{rows[i].category : i \in 1..Len(rows)} :
                       rows \in {standardizeRows(Files[f], b).rows :
                                   f \in 1..Len(Files), b \in Browsers}}

\* The user picks another option of the category select (a change event
\* fires only when the value changes).
ChangeCategory(v) ==
    /\ loaded
    /\ v # categoryFilter.value
    /\ \E i \in 1..Len(categoryFilter.options) : categoryFilter.options[i] = v
    /\ categoryFilter' = [categoryFilter EXCEPT !.value = v]
    /\ dashboard' = refreshDashboard(rawData, v, dateFrom, dateTo)
    /\ handled' = Did("categoryFilter", 0, 1, << >>, << >>)
    /\ overtaken' = Flight(overtaken.by, "none")
    /\ UNCHANGED fnVars
    /\ UNCHANGED <<browser, loaded, rawData, dateFrom, dateTo, downloadHidden,
                   pending>>

ChangeDateFrom(d) ==
    /\ loaded
    /\ d # dateFrom
    /\ dateFrom' = d
    /\ dashboard' = refreshDashboard(rawData, categoryFilter.value, d, dateTo)
    /\ handled' = Did("dateFrom", 0, 1, << >>, << >>)
    /\ overtaken' = Flight(overtaken.by, "none")
    /\ UNCHANGED fnVars
    /\ UNCHANGED <<browser, loaded, rawData, categoryFilter, dateTo,
                   downloadHidden, pending>>

\* A change of dateTo with no listener attached: the control takes the
\* value and nothing is refreshed.
ChangeDateToUnheard(d) ==
    /\ loaded
    /\ d # dateTo
    /\ dateTo' = d
    /\ handled' = Did("dateTo", 0, 0, << >>, << >>)
    /\ overtaken' = Flight(overtaken.by, "none")
    /\ UNCHANGED fnVars
    /\ UNCHANGED <<browser, loaded, rawData, categoryFilter, dateFrom,
                   dashboard, downloadHidden, pending>>

ChangeDateTo(d) ==
    /\ loaded
    /\ d # dateTo
    /\ dateTo' = d
    /\ dashboard' = refreshDashboard(rawData, categoryFilter.value, dateFrom, d)
    /\ handled' = Did("dateTo", 0, 1, << >>, << >>)
    /\ overtaken' = Flight(overtaken.by, "none")
    /\ UNCHANGED fnVars
    /\ UNCHANGED <<browser, loaded, rawData, categoryFilter, dateFrom,
                   downloadHidden, pending>>

\* A click on the download button, once it is shown.
Download ==
    /\ loaded
    /\ ~downloadHidden
    /\ \E out \in {downloadCleanCsv(rawData)} :
          handled' = Did("downloadCsv", 0, 0, out.alerts, out.files)
    /\ overtaken' = Flight(overtaken.by, "none")
    /\ UNCHANGED fnVars
    /\ UNCHANGED <<browser, loaded, rawData, categoryFilter, dateFrom, dateTo,
                   dashboard, downloadHidden, pending>>

NextPage ==
    \/ DOMContentLoaded
    \/ UseSample
    \/ \E f \in 0..Len(Files) : HandleFile(f)
    \/ \E i \in 1..MaxPending : ParseComplete(i)
    \/ \E i \in 1..MaxPending : ParseError(i)
    \/ \E v \in OptionValues : ChangeCategory(v)
    \/ \E d \in DateInputs : ChangeDateFrom(d)
    \/ \E d \in DateInputs : ChangeDateTo(d)
    \/ Download

(***************************************************************************)
(* standardizeRows and downloadCleanCsv on their own                       *)
(***************************************************************************)

\* How many raw records an input holds at most.
MaxRows == 2

Text(s) == Str(s)

\* Raw records: any keys, text or numeric values.
RecEmpty == << >>

RecClean ==
    << <<kDate, Text(Jan01)>>, <<kCategory, Text(<<"T", "o", "y", "s">>)>>,
       <<kSales, Text(<<"$", "1", ",", "2", "5", "0", ".", "5", "0">>)>>,
       <<kOrders, Text(<<"4">>)>>, <<kCustomerId, Text(<<"C", "1">>)>> >>

RecSynonyms ==
    << <<HeaderMessy[1], Text(<<" ", "a", ",", "b", " ">>)>>,
       <<HeaderMessy[2], Text(<<"1", "2">>)>>,
       <<HeaderMessy[3], Text(<<"0">>)>>,
       <<<<"u", "s", "e", "r", "_", "i", "d">>, Text(<<"u", "1">>)>>,
       <<<<"T", "i", "m", "e", "s", "t", "a", "m", "p">>,
         Text(<<"1", "3", "/", "0", "1", "/", "2", "0", "2", "5">>)>> >>

RecBlankCategory == << <<kCategory, Text(<<" ", " ">>)>> >>

RecNumericCategory == << <<kCategory, Num(5 * Scale)>> >>

RecZeroOrders ==
    << <<kSegment, Text(<<"x", "\"", "y">>)>>, <<kOrders, Text(<<"0">>)>>,
       <<kSales, Text(<<"0">>)>> >>

RecNewline ==
    << <<kCategory, Text(<<"a", "\n", "b">>)>>,
       <<kDate, Text(<<"0", "2", "/", "0", "1", "/", "2", "0", "2", "5">>)>> >>

RecBadDay ==
    << <<kDate, Text(<<"4", "5", "/", "1", "3", "/", "2", "0", "2", "5">>)>>,
       <<kAmount, Text(<<"a", "b", "c">>)>> >>

RecNumbers ==
    << <<kDate, Num(1500 * Scale)>>, <<kSales, Num(1250)>>,
       <<kOrders, Num(0)>>, <<kCustomer, Num(7 * Scale)>> >>

RecLongMonth ==
    << <<kOrderDate, Text(<<"2", "0", "2", "5", "-", "0", "2", "-", "3", "0">>)>>,
       <<kCategory, Text(<< >>)>>,
       <<kProductCategory, Text(<<"H", "o", "m", "e">>)>> >>

RecJunkDate ==
    << <<kDate, Text(<<"j", "u", "n", "k">>)>>,
       <<kQty, Text(<<"-", "2">>)>>,
       <<kRevenue, Text(<<"-", "5", ".", "5">>)>> >>

RawRecords ==
    {RecEmpty, RecClean, RecSynonyms, RecBlankCategory, RecNumericCategory,
     RecZeroOrders, RecNewline, RecBadDay, RecNumbers, RecLongMonth,
     RecJunkDate}

Inputs == UNION {[1..n -> RawRecords] : n \in 0..MaxRows}

NoResult == [threw |-> FALSE, rows |-> << >>]

NoExport == [alerts |-> << >>, files |-> << >>]

InitFn ==
    /\ input \in Inputs
    /\ stage = "raw"
    /\ normalized = NoResult
    /\ renormalized = NoResult
    /\ exported = NoExport

\* A normalized row as a record under the canonical field names.
CanonicalRecord(row) ==
    << <<kDate, row.date>>, <<kCategory, Str(row.category)>>,
       <<kSales, Num(row.sales)>>, <<kOrders, Num(row.orders)>>,
       <<kCustomerId, Str(row.customer_id)>> >>

Standardize ==
    /\ stage = "raw"
    /\ normalized' = standardizeRows(input, browser)
    /\ stage' = "standardized"
    /\ UNCHANGED pageVars
    /\ UNCHANGED <<input, renormalized, exported>>

Restandardize ==
    /\ stage = "standardized"
    /\ ~normalized.threw
    /\ renormalized' =
          standardizeRows([i \in 1..Len(normalized.rows) |->
                             CanonicalRecord(normalized.rows[i])], browser)
    /\ stage' = "restandardized"
    /\ UNCHANGED pageVars
    /\ UNCHANGED <<input, normalized, exported>>

Export ==
    /\ stage = "standardized"
    /\ ~normalized.threw
    /\ exported' = downloadCleanCsv(normalized.rows)
    /\ stage' = "exported"
    /\ UNCHANGED pageVars
    /\ UNCHANGED <<input, normalized, renormalized>>

NextFn ==
    \/ Standardize
    \/ Restandardize
    \/ Export

(***************************************************************************)
(* Specifications                                                          *)
(***************************************************************************)

\* The page, from construction on.
Init ==
    /\ InitPage
    /\ input = << >> /\ stage = "off"
    /\ normalized = NoResult /\ renormalized = NoResult /\ exported = NoExport

Next == NextPage

Spec == Init /\ [][Next]_vars

\* standardizeRows and downloadCleanCsv applied to every bounded input.
InitNorm ==
    /\ InitFn
    /\ browser \in Browsers
    /\ loaded = FALSE /\ rawData = << >>
    /\ categoryFilter = [options |-> << >>, value |-> << >>]
    /\ dateFrom = << >> /\ dateTo = << >>
    /\ dashboard = NoDashboard /\ downloadHidden = TRUE
    /\ pending = << >> /\ overtaken = Flight(<< >>, "none")
    /\ handled = Did("none", 0, 0, << >>, << >>)

NextNorm == NextFn

SpecNorm == InitNorm /\ [][NextNorm]_vars

(***************************************************************************)
(* Properties                                                              *)
(***************************************************************************)

\* a >= b for two texts, by code units.
TextGe(a, b) == a = b \/ StrLess(b, a)

TextLe(a, b) == TextGe(b, a)

AbsentDate(r) == r.date = Null

\* The rows the selection {category, dateFrom, dateTo} of the page asks for.
Selected(r) ==
    /\ (categoryFilter.value \in {All, << >>}
          \/ r.category = categoryFilter.value)
    /\ (dateFrom = << >> \/ AbsentDate(r) \/ TextGe(r.date.s, dateFrom))
    /\ (dateTo = << >> \/ AbsentDate(r) \/ TextLe(r.date.s, dateTo))

\* C1: the rows getFilteredData returns are exactly the rows of the row set
\* whose category is the selected one (or any, under "all") and whose date is
\* absent or within [dateFrom, dateTo] where a bound is given, in input
\* order, none duplicated; a row with no date is kept under any range.
C1_FilterSelectsExactly ==
    /\ dashboard.data = SelectSeq(rawData, Selected)
    /\ \A i \in 1..Len(rawData) :
          (AbsentDate(rawData[i])
             /\ (categoryFilter.value \in {All, << >>}
                   \/ rawData[i].category = categoryFilter.value))
          => \E j \in 1..Len(dashboard.data) : dashboard.data[j] = rawData[i]

\* A date bound and a category are selected, a row without a date is kept
\* and other rows of the set are left out.
C1_Witness ==
    /\ dateFrom # << >>
    /\ categoryFilter.value \notin {All, << >>}
    /\ \E j \in 1..Len(dashboard.data) : AbsentDate(dashboard.data[j])
    /\ \E i \in 1..Len(rawData) :
          /\ rawData[i].category = categoryFilter.value
          /\ \A j \in 1..Len(dashboard.data) : dashboard.data[j] # rawData[i]

\* C2: standardizeRows drops no row: whenever it returns, the normalized
\* sequence is as long as the input (the empty input included) and its i-th
\* row is the row made from the i-th raw record.
C2_NoRowDropped ==
    (stage # "raw" /\ ~normalized.threw)
    => /\ Len(normalized.rows) = Len(input)
       /\ \A i \in 1..Len(input) :
             normalized.rows[i] = standardizeRow(input[i], browser).row

\* Two records were normalized, the first one an empty record and the second
\* one not.
C2_Witness ==
    /\ stage = "standardized"
    /\ ~normalized.threw
    /\ Len(input) >= 2
    /\ input[1] = RecEmpty
    /\ input[2] = RecSynonyms
    /\ Len(normalized.rows) = Len(input)
    /\ normalized.rows[1] # normalized.rows[2]

\* C3: normalization never fails: for every raw record, text or numeric
\* values alike, standardizeRows returns a row and raises no exception.
C3_NeverFails == stage # "raw" => ~normalized.threw

\* C4: every normalized row has a non-empty category; a record without a
\* category field, or with a blank one, gets "Unknown".
C4_CategoryNonEmpty ==
    (stage # "raw" /\ ~normalized.threw)
    => \A i \in 1..Len(normalized.rows) :
          /\ normalized.rows[i].category # << >>
          /\ (\A k \in {kCategory, kProductCategory, kSegment} :
                 Lower(input[i], k) = Undefined
                 \/ (IsStr(Lower(input[i], k))
                      /\ Trim(Lower(input[i], k).s) = << >>))
             => normalized.rows[i].category = Unknown

\* C5: normalization is idempotent: the normalized rows, fed back under the
\* canonical field names, normalize to the same rows field by field.
C5_Idempotent ==
    stage = "restandardized"
    => /\ ~renormalized.threw
       /\ Len(renormalized.rows) = Len(normalized.rows)
       /\ \A i \in 1..Len(normalized.rows) :
             /\ renormalized.rows[i].date = normalized.rows[i].date
             /\ renormalized.rows[i].category = normalized.rows[i].category
             /\ renormalized.rows[i].sales = normalized.rows[i].sales
             /\ renormalized.rows[i].orders = normalized.rows[i].orders
             /\ renormalized.rows[i].customer_id = normalized.rows[i].customer_id

\* The sum of the sales, and of the orders, of the first n rows.
RECURSIVE SalesSum(_, _)
SalesSum(rows, n) == IF n = 0 THEN 0 ELSE SalesSum(rows, n - 1) + rows[n].sales

RECURSIVE OrdersSum(_, _)
OrdersSum(rows, n) ==
    IF n = 0 THEN 0 ELSE OrdersSum(rows, n - 1) + rows[n].orders

\* The amount a toFixed(2) text stands for, in hundredths.
AmountOf(text) ==
    LET neg == text # << >> /\ text[1] = "-"
        mag == IF neg THEN Tail(text) ELSE text
        dot == CHOOSE i \in 1..Len(mag) : mag[i] = "."
        n == Scale * DigitsValue(SubSeq(mag, 1, dot - 1))
               + DigitsValue(SubSeq(mag, dot + 1, Len(mag)))
    IN IF neg THEN -n ELSE n

\* C6: over the filtered rows, the total shown is the sum of sales, the
\* denominator is the sum of orders with 1 taken only when that sum is 0 (a
\* row with 0 orders adds 0), and the average shown is the total divided by
\* that denominator, to the nearest cent; no rows give 0.00, 0.00 and 0.
C6_KpiTotals ==
    LET sales == SalesSum(dashboard.data, Len(dashboard.data))
        orders == OrdersSum(dashboard.data, Len(dashboard.data))
        den == IF orders = 0 THEN Scale ELSE orders
    IN loaded
       => /\ AmountOf(dashboard.kpiTotal) = sales
          /\ den # 0
          /\ 2 * Abs(AmountOf(dashboard.kpiAvg) * den - Scale * sales)
                <= Abs(den)
          /\ dashboard.data = << >>
                => /\ dashboard.kpiTotal = <<"0", ".", "0", "0">>
                   /\ dashboard.kpiAvg = <<"0", ".", "0", "0">>
                   /\ dashboard.kpiCust = 0

\* Rows are shown whose orders sum to 0 while their sales do not, so the
\* average shown is the total itself.
C6_Witness ==
    /\ dashboard.data # << >>
    /\ \A i \in 1..Len(dashboard.data) : dashboard.data[i].orders = 0
    /\ AmountOf(dashboard.kpiTotal) > 0
    /\ dashboard.kpiAvg = dashboard.kpiTotal

\* The key a row is counted under in the series when rows without a date
\* are counted under "unknown".
SeriesKey(r) == IF AbsentDate(r) THEN kUnknown ELSE r.date.s

\* The sales of the rows of the sequence counted under key k.
SalesUnder(rows, k) ==
    SalesSum(SelectSeq(rows, LAMBDA r : SeriesKey(r) = k),
             Len(SelectSeq(rows, LAMBDA r : SeriesKey(r) = k)))

Ascending(labels) ==
    \A i, j \in 1..Len(labels) : i < j => StrLess(labels[i], labels[j])

\* C7 (as the code has it): the keys of the series are the dates of the
\* rows that have one, and "unknown" when some row has none; each key's
\* value is the sum of the sales of its rows ("unknown": of the rows without
\* a date); the keys ascend by code units, which puts "unknown" last.
C7_SeriesKeysWithUnknown ==
    LET data == dashboard.data
        series == dashboard.chartTime
    IN /\ Len(series.values) = Len(series.labels)
       /\ {series.labels[i] : i \in 1..Len(series.labels)}
             = {SeriesKey(data[i]) : i \in 1..Len(data)}
       /\ Ascending(series.labels)
       /\ \A i \in 1..Len(series.labels) :
             series.values[i] = SalesUnder(data, series.labels[i])
       /\ \A i \in 1..Len(series.labels) :
             series.labels[i] \notin {kNull, kUndefined}
       /\ \A i \in 1..Len(series.labels) :
             series.labels[i] = kUnknown => i = Len(series.labels)

\* Rows with and without a date are shown: the series ends with "unknown",
\* after at least one date.
C7_Witness ==
    /\ Len(dashboard.chartTime.labels) >= 2
    /\ dashboard.chartTime.labels[Len(dashboard.chartTime.labels)] = kUnknown
    /\ dashboard.chartTime.values[Len(dashboard.chartTime.labels)] > 0
    /\ \E i \in 1..Len(dashboard.data) : ~AbsentDate(dashboard.data[i])

\* C7 (as stated): the keys of the series are only the dates of the rows
\* that have one (no "unknown", "null" or "undefined" label), each with the
\* sum of the sales of the rows of that date, in ascending order.
C7_SeriesKeysDatedOnly ==
    LET data == dashboard.data
        series == dashboard.chartTime
    IN /\ {series.labels[i] : i \in 1..Len(series.labels)}
             = {data[i].date.s : i \in {j \in 1..Len(data) :
                                           ~AbsentDate(data[j])}}
       /\ Ascending(series.labels)
       /\ \A i \in 1..Len(series.labels) :
             series.values[i] = SalesUnder(data, series.labels[i])

\* C8: a click on the download control writes one file, whose rows are the
\* rows the current selection {category, dateFrom, dateTo} keeps, all of
\* them and not only the previewed ones.
C8_ExportsFilteredRows ==
    (handled.event = "downloadCsv" /\ dashboard.data # << >>)
    => handled.files = <<CsvText(dashboard.data)>>

\* The positions of the separator c in the text that lie outside quotes
\* (an even number of quote characters before them).
Outside(text, c) ==
    {i \in 1..Len(text) :
       /\ text[i] = c
       /\ Cardinality({j \in 1..(i - 1) : text[j] = "\""}) % 2 = 0}

\* The pieces of the text between the positions of cuts, in order.
Pieces(text, cuts) ==
    LET at == [k \in 1..Cardinality(cuts) |->
                 CHOOSE i \in cuts : Cardinality({j \in cuts : j < i}) = k - 1]
    IN [k \in 1..(Cardinality(cuts) + 1) |->
          SubSeq(text,
                 IF k = 1 THEN 1 ELSE at[k - 1] + 1,
                 IF k = Cardinality(cuts) + 1 THEN Len(text) ELSE at[k] - 1)]

\* A field as written to the value it stands for: a quoted field loses its
\* outer quotes and every doubled quote becomes one.
Unquote(field) ==
    IF field # << >> /\ field[1] = "\""
    THEN LET inner == SubSeq(field, 2, Len(field) - 1)
             kept == {i \in 1..Len(inner) :
                        inner[i] = "\""
                        => Cardinality({j \in 1..(i - 1) : inner[j] = "\""}) % 2 = 0}
         IN [k \in 1..Cardinality(kept) |->
               inner[CHOOSE i \in kept : Cardinality({j \in kept : j < i}) = k - 1]]
    ELSE field

\* The lines of a delimited text, each as the sequence of its field values.
Decode(text) ==
    LET lines == Pieces(text, Outside(text, "\n"))
    IN [l \in 1..Len(lines) |->
          LET fields == Pieces(lines[l], Outside(lines[l], ","))
          IN [c \in 1..Len(fields) |-> Unquote(fields[c])]]

\* C9: the text downloadCleanCsv writes for a non-empty row sequence decodes
\* (comma, newline, quoted fields with doubled quotes) to the header and,
\* row by row and column by column, to the values of the rows.
C9_ExportRoundTrips ==
    (stage = "exported" /\ normalized.rows # << >>)
    => /\ Len(exported.files) = 1
       /\ Decode(exported.files[1])
            = <<Cols>> \o [i \in 1..Len(normalized.rows) |->
                             [c \in 1..Len(Cols) |->
                                CellText(Fields(normalized.rows[i])[c])]]

\* The rows a load event has just put in place.
Loaded ==
    IF handled.event = "complete"
    THEN standardizeRows(Files[handled.file], browser).rows
    ELSE SubSeq(sample, 1, Min(SampleRows, Len(sample)))

\* C10: right after a completed load (the sample or a parsed file) the row
\* set is the loaded rows and nothing else, and filter, aggregation and
\* presentation have run exactly once on it, before any other event.
C10_LoadReplacesAndRefreshesOnce ==
    handled.event \in {"DOMContentLoaded", "useSample", "complete"}
    => /\ rawData = Loaded
       /\ handled.renders = 1
       /\ dashboard.data = SelectSeq(rawData, Selected)
       /\ dashboard
            = refreshDashboard(rawData, categoryFilter.value, dateFrom, dateTo)

\* A parsed file has just replaced the sample: none of the rows now in
\* place is a row of the sample, and the dashboard shows rows of the file.
C10_Witness ==
    /\ handled.event = "complete"
    /\ rawData # << >>
    /\ \A i \in 1..Len(rawData) : \A j \in 1..Len(sample) : rawData[i] # sample[j]
    /\ dashboard.data # << >>

\* C11: a step in which a parse fails raises exactly one notice and ends
\* that parse (it leaves the parses in flight and none is started), and the
\* row set, the filter selection and the dashboard are after the step what
\* they were before it.
C11_ParseFailureIsTerminal ==
    [][handled'.event = "error"
         => /\ handled'.alerts = <<ParseErrorNotice>>
            /\ handled'.renders = 0
            /\ handled'.files = << >>
            /\ Len(pending') = Len(pending) - 1
            /\ \E i \in 1..Len(pending) :
                  pending[i] = handled'.file /\ pending' = Remove(pending, i)
            /\ rawData' = rawData
            /\ categoryFilter' = categoryFilter
            /\ dateFrom' = dateFrom
            /\ dateTo' = dateTo
            /\ dashboard' = dashboard
            /\ downloadHidden' = downloadHidden]_vars

\* A parse has just failed while a category and a date bound were selected
\* and rows were shown; the notice is up and no parse is in flight.
C11_Witness ==
    /\ handled.event = "error"
    /\ handled.alerts = <<ParseErrorNotice>>
    /\ pending = << >>
    /\ categoryFilter.value \notin {All, << >>}
    /\ dateFrom # << >>
    /\ dashboard.data # << >>
    /\ Len(dashboard.data) < Len(rawData)

\* C12: once the page has loaded, after every event the KPIs, the category
\* series, the date series and the table shown are the ones computed from
\* the row set as it is now under the selection as it is now.
C12_DisplayNeverStale ==
    loaded
    => /\ dashboard.data = SelectSeq(rawData, Selected)
       /\ dashboard
            = refreshDashboard(rawData, categoryFilter.value, dateFrom, dateTo)
       /\ AmountOf(dashboard.kpiTotal)
            = SalesSum(SelectSeq(rawData, Selected),
                       Len(SelectSeq(rawData, Selected)))
       /\ dashboard.table.body
            = renderTable(SelectSeq(rawData, Selected)).body

\* A file was loaded while both date bounds were set: the rows shown are the
\* file's rows within the bounds, fewer than the file holds, and the table
\* shows them.
C12_Witness ==
    /\ handled.event = "complete"
    /\ dateFrom # << >>
    /\ dateTo # << >>
    /\ dashboard.data # << >>
    /\ Len(dashboard.data) < Len(rawData)
    /\ Len(dashboard.table.body) = Len(dashboard.data)

\* The rows of the parsed file f.
RowsOfFile(f) == standardizeRows(Files[f], browser).rows

\* C13: loads take effect in the order their completions run.  A parse that
\* completes after a load requested later than it (the sample, or another
\* file) still replaces the row set and the display with its own rows; and
\* no later request takes a parse out of those in flight: each one stays in
\* flight until its own callback runs.
C13_CompletionOrderWins ==
    /\ [](handled.event = "complete"
            => /\ handled.renders = 1
               /\ rawData = RowsOfFile(handled.file)
               /\ dashboard.data = SelectSeq(RowsOfFile(handled.file), Selected))
    /\ [](handled.event \in {"DOMContentLoaded", "useSample"}
            => rawData = SubSeq(sample, 1, Min(SampleRows, Len(sample))))
    /\ [][/\ handled'.event \in {"useSample", "handleFile", "complete", "error"}
             => \A f \in 1..Len(Files) :
                  Cardinality({i \in 1..Len(pending') : pending'[i] = f})
                    >= Cardinality({i \in 1..Len(pending) : pending[i] = f})
                         - (IF handled'.event \in {"complete", "error"}
                               /\ handled'.file = f THEN 1 ELSE 0)
          /\ handled'.event \in {"complete", "error"}
             => Len(pending') = Len(pending) - 1]_vars

\* Two parses were in flight and the one requested first has completed
\* last: the rows in place are those of the file chosen first, and they
\* differ from the sample and from the rows of every other file.
C13_Witness ==
    /\ handled.event = "complete"
    /\ overtaken.done = "file"
    /\ rawData = RowsOfFile(handled.file)
    /\ rawData # << >>
    /\ rawData # SubSeq(sample, 1, Min(SampleRows, Len(sample)))
    /\ \A f \in 1..Len(Files) : f # handled.file => rawData # RowsOfFile(f)

====
